---- MODULE Spec2Model ----
(***************************************************************************)
(* Football transfer predictor (yutee/leaseon): the TransferPredictor      *)
(* object of app/model_training.py (prepare_data, train,                   *)
(* predict_transfer_probability, save_model, load_model) and the service   *)
(* of app/main.py (lifespan, predict_transfer, predict_multi_club).        *)
(*                                                                         *)
(* Probabilities are held in hundredths (0..100): 0.3 is 30, 0.7 is 70.    *)
(* The scikit-learn objects are modelled by the interface the code uses:   *)
(* LabelEncoder by its sorted classes_, StandardScaler by feature_names_in_*)
(* mean_ and scale_, RandomForestClassifier by classes_, n_features_in_    *)
(* and one decision stump.  What fit() computes from the rows is not       *)
(* derived from data: a fit yields any member of a bounded family.         *)
(***************************************************************************)
EXTENDS Integers, Sequences, FiniteSets, TLC

VARIABLES predictor, disk, phase, out, np_random

vars == <<predictor, disk, phase, out, np_random>>

(***************************************************************************)
(* Bounds of the model.                                                    *)
(***************************************************************************)
MaxClubs == 3       \* longest club list of a multi-club request
MaxCount == 3       \* most rows of one label class in a training table
MaxDamage == 1      \* most artifact files lost or corrupted before startup
MaxRows == 2        \* rows of a generated dataset (500 in data_collection.py:89)

(***************************************************************************)
(* Sequence helpers.                                                       *)
(***************************************************************************)
Range(s) == {s[i] : i \in 1..Len(s)}

Reverse(s) == [i \in 1..Len(s) |-> s[Len(s) + 1 - i]]

IndexOf(s, x) == CHOOSE i \in 1..Len(s) : s[i] = x

SeqsUpTo(S, n) == UNION {[1..k -> S] : k \in 0..n}

(***************************************************************************)
(* Program data.                                                           *)
(***************************************************************************)
\* model_training.py:53-57, the canonical feature order
FeatureCols ==
    <<"player_age", "market_value", "goals", "assists", "minutes_played",
      "position", "club_budget", "club_league_position",
      "club_champions_league", "contract_years_left", "player_wants_move",
      "position_need">>

\* model_training.py:44
categorical_cols == <<"position">>

\* model_training.py:29-36
big6_clubs ==
    ("Manchester City" :> [budget |-> 180000000, cl_qualified |-> 1, league_pos |-> 1]) @@
    ("Arsenal" :> [budget |-> 150000000, cl_qualified |-> 1, league_pos |-> 2]) @@
    ("Liverpool" :> [budget |-> 140000000, cl_qualified |-> 1, league_pos |-> 3]) @@
    ("Chelsea" :> [budget |-> 200000000, cl_qualified |-> 0, league_pos |-> 6]) @@
    ("Manchester United" :> [budget |-> 160000000, cl_qualified |-> 0, league_pos |-> 8]) @@
    ("Tottenham" :> [budget |-> 120000000, cl_qualified |-> 0, league_pos |-> 5])

\* model_training.py:112-116, the profile of a club the registry does not hold
FallbackBudget == 100000000
FallbackLeaguePos == 10
FallbackCl == 0

FallbackClub ==
    [budget |-> FallbackBudget, cl_qualified |-> FallbackCl, league_pos |-> FallbackLeaguePos]

\* model_training.py:159, the confidence thresholds 0.7 and 0.3 in hundredths
HighAbove == 70
HighBelow == 30

\* np.unique orders the labels: the positions in lexicographic order
\* (data_collection.py:84 names the four the generator draws)
PositionOrder == <<"Attacker", "Defender", "Goalkeeper", "Midfielder">>

\* model_training.py:166-175
get_position_priorities(club_name) ==
    CASE club_name = "Manchester City" ->
           [Attacker |-> 2, Midfielder |-> 1, Defender |-> 2, Goalkeeper |-> 0]
      [] club_name = "Arsenal" ->
           [Attacker |-> 3, Midfielder |-> 2, Defender |-> 1, Goalkeeper |-> 1]
      [] club_name = "Liverpool" ->
           [Attacker |-> 2, Midfielder |-> 3, Defender |-> 2, Goalkeeper |-> 0]
      [] club_name = "Chelsea" ->
           [Attacker |-> 3, Midfielder |-> 2, Defender |-> 2, Goalkeeper |-> 1]
      [] club_name = "Manchester United" ->
           [Attacker |-> 3, Midfielder |-> 2, Defender |-> 3, Goalkeeper |-> 0]
      [] club_name = "Tottenham" ->
           [Attacker |-> 2, Midfielder |-> 1, Defender |-> 3, Goalkeeper |-> 1]
      [] OTHER ->
           [Attacker |-> 2, Midfielder |-> 2, Defender |-> 2, Goalkeeper |-> 1]

\* dict.get(position, 1) on a priorities table (main.py:216, main.py:289)
PriorityOf(priorities, position) ==
    IF position \in DOMAIN priorities THEN priorities[position] ELSE 1

(***************************************************************************)
(* Inputs: training tables.  A table is its column list (in file order),   *)
(* the set of values of its position column and the number of rows of      *)
(* each label class.                                                       *)
(***************************************************************************)
\* data_collection.py:150-165, the column order of the generated table
MockColumns == FeatureCols \o <<"transfer_happened", "transfer_probability">>

Schemas ==
    { MockColumns,
      Reverse(MockColumns),
      FeatureCols,
      <<"player_age", "market_value", "goals", "club_budget",
        "club_champions_league", "transfer_happened">>,
      <<"position_need", "position", "club_budget", "player_age", "transfer_happened">>,
      <<"transfer_happened", "transfer_probability">> }

PositionSets == { {}, {"Defender", "Midfielder"}, Range(PositionOrder) }

Tables ==
    { [columns |-> cols, positions |-> ps, n0 |-> a, n1 |-> b] :
        cols \in Schemas, ps \in PositionSets, a \in 0..MaxCount, b \in 0..MaxCount }

WellFormed(df) ==
    /\ Cardinality(df.positions) <= df.n0 + df.n1
    /\ (df.n0 + df.n1 > 0 /\ "position" \in Range(df.columns)) => df.positions # {}
    /\ "position" \notin Range(df.columns) => df.positions = {}

\* data_collection.py:76-167: 500 rows, fourteen columns, the four positions,
\* both label classes.  The class sizes of the seeded draw are not derived
\* here; the split below only asks that each class has two rows or more.
generate_mock_data ==
    [columns |-> MockColumns, positions |-> Range(PositionOrder), n0 |-> 250, n1 |-> 250]

(***************************************************************************)
(* numpy.random, the process-wide generator, by the interface the code     *)
(* uses.  Its state is a position in a stream of uniform variates;          *)
(* np.random.seed(42) puts it at the start of the stream of seed 42.  A    *)
(* variate u stands for the real u / Resolution in [0, 1).  The stream is  *)
(* held by the draws of one dataset row at a time: mt[i] are the variates  *)
(* the i-th row consumes, one per call of the row.  What the Mersenne      *)
(* Twister yields for seed 42 is not derived: mt is any stream of a        *)
(* bounded family, fixed for the whole run.                                *)
(***************************************************************************)
Resolution == 10000

DrawFields ==
    {"age", "market_value", "has_goals", "goals", "assists", "minutes_played", "position",
     "club_budget", "club_league_position", "club_champions_league",
     "contract_years_left", "player_wants_move", "position_need", "noise"}

Draws(u) == [f \in DrawFields |-> u]

DrawRows ==
    { Draws(0), Draws(2500), Draws(5000), Draws(6000), Draws(Resolution - 1),
      [Draws(0) EXCEPT !.noise = 5000],
      [Draws(0) EXCEPT !.noise = 2500],
      [Draws(0) EXCEPT !.noise = 2667],
      [Draws(Resolution - 1) EXCEPT !.has_goals = 0],
      [Draws(Resolution - 1) EXCEPT !.position_need = 0, !.player_wants_move = 0,
                                    !.assists = 0, !.club_champions_league = 0],
      [Draws(5000) EXCEPT !.age = Resolution - 1],
      [Draws(2500) EXCEPT !.market_value = Resolution - 1] }

Streams == [1..MaxRows -> DrawRows]

SampleStream == [i \in 1..MaxRows |-> Draws(5000)]

\* The generator of a process: a stream and a position in it
ProcessStart(mt, pos) == [mt |-> mt, pos |-> pos]

\* np.random.seed(42) with the state left as it was
np_random_seed_ignored(state) == state

\* np.random.seed(42), data_collection.py:81
np_random_seed(state) == [state EXCEPT !.pos = 0]

\* The variates of the i-th row drawn from this state on
RowDraws(state, i) == state.mt[((state.pos + i - 1) % Len(state.mt)) + 1]

\* The state after n rows were drawn
Advance(state, n) == [state EXCEPT !.pos = (state.pos + n) % Len(state.mt)]

\* np.random.randint(low, high): low + floor(u * (high - low)), high excluded
randint(low, high, u) == low + (u * (high - low)) \div Resolution

\* np.random.choice(options): each option equally likely
choice(options, u) == options[(u * Len(options)) \div Resolution + 1]

\* np.random.choice([a, b], p=[p/10, 1 - p/10])
choice_p(a, b, p, u) == IF u * 10 < p * Resolution THEN a ELSE b

\* np.random.normal(0, 0.1) in hundredths, within three standard deviations
normal(u) == ((u - Resolution \div 2) * 30) \div (Resolution \div 2)

(***************************************************************************)
(* FootballDataCollector.generate_mock_data (app/data_collection.py).      *)
(* transfer_probability is held in hundredths.                             *)
(***************************************************************************)
\* data_collection.py:84
positions == <<"Goalkeeper", "Defender", "Midfielder", "Attacker">>

\* data_collection.py:91-108
Attributes(d) ==
    [player_age |-> randint(18, 35, d.age),
     market_value |-> randint(5, 100, d.market_value) * 1000000,
     goals |-> IF choice_p(TRUE, FALSE, 6, d.has_goals) THEN randint(0, 30, d.goals) ELSE 0,
     assists |-> randint(0, 20, d.assists),
     minutes_played |-> randint(500, 3500, d.minutes_played),
     position |-> choice(positions, d.position),
     club_budget |-> randint(50, 200, d.club_budget) * 1000000,
     club_league_position |-> randint(1, 20, d.club_league_position),
     club_champions_league |-> choice_p(0, 1, 7, d.club_champions_league),
     contract_years_left |-> randint(0, 5, d.contract_years_left),
     player_wants_move |-> choice_p(0, 1, 7, d.player_wants_move),
     position_need |-> choice(<<0, 1, 2, 3>>, d.position_need)]

\* data_collection.py:111-142, base_prob in hundredths
base_prob(a) ==
    10
    + (IF 22 <= a.player_age /\ a.player_age <= 28 THEN 30
       ELSE IF a.player_age > 30 THEN -20 ELSE 0)
    + (IF 10 * a.market_value <= 3 * a.club_budget THEN 40
       ELSE IF 2 * a.market_value > a.club_budget THEN -30 ELSE 0)
    + (IF a.goals > 15 \/ a.assists > 10 THEN 20 ELSE 0)
    + a.position_need * 15
    + (IF a.contract_years_left <= 1 THEN 25 ELSE 0)
    + (IF a.player_wants_move # 0 THEN 20 ELSE 0)
    + (IF a.club_champions_league # 0 THEN 10 ELSE 0)

Max(a, b) == IF a >= b THEN a ELSE b

Min(a, b) == IF a <= b THEN a ELSE b

\* data_collection.py:145 with the sum left as it is
ClampNone(x) == x

\* data_collection.py:145, max(0, min(1, x))
Clamp(x) == Max(0, Min(100, x))

\* data_collection.py:148
transfer_happened(transfer_probability) == IF transfer_probability > 60 THEN 1 ELSE 0

\* data_collection.py:150-165
RowOf(a, transfer_probability) ==
    [player_age |-> a.player_age, market_value |-> a.market_value, goals |-> a.goals,
     assists |-> a.assists, minutes_played |-> a.minutes_played, position |-> a.position,
     club_budget |-> a.club_budget, club_league_position |-> a.club_league_position,
     club_champions_league |-> a.club_champions_league,
     contract_years_left |-> a.contract_years_left,
     player_wants_move |-> a.player_wants_move, position_need |-> a.position_need,
     transfer_happened |-> transfer_happened(transfer_probability),
     transfer_probability |-> transfer_probability]

\* data_collection.py:89-165, one pass of the loop
MockRow(d) == RowOf(Attributes(d), Clamp(base_prob(Attributes(d)) + normal(d.noise)))

\* data_collection.py:76-167: the rows returned and the generator state afterwards
generate_mock_rows(state) ==
    [df |-> [i \in 1..MaxRows |-> MockRow(RowDraws(np_random_seed(state), i))],
     draws |-> [i \in 1..MaxRows |-> RowDraws(np_random_seed(state), i)],
     np_random |-> Advance(np_random_seed(state), MaxRows)]

(***************************************************************************)
(* Inputs: players and club names of requests.                             *)
(***************************************************************************)
BasePlayer ==
    [name |-> "Sample Player", age |-> 26, market_value |-> 45000000, goals |-> 18,
     assists |-> 8, minutes_played |-> 2800, position |-> "Attacker",
     contract_years_left |-> 1, player_wants_move |-> 1, position_need |-> 3]

Players ==
    { BasePlayer,
      [BasePlayer EXCEPT !.position = "Defender", !.market_value = 90000000, !.age = 31],
      [BasePlayer EXCEPT !.position = "Winger", !.goals = 0, !.age = 19] }

RequestClubs == {"Arsenal", "Chelsea", "Tottenham", "Unknown FC"}

(***************************************************************************)
(* scikit-learn, by the interface the code uses.                           *)
(***************************************************************************)
\* LabelEncoder().fit: classes_ are the distinct values, sorted
LabelEncoder_fit(values) == SelectSeq(PositionOrder, LAMBDA p : p \in values)

\* LabelEncoder.transform of one value: its index in classes_, ValueError if unseen
LabelEncoder_transform(classes, v) ==
    IF v \in Range(classes)
    THEN [raised |-> FALSE, code |-> IndexOf(classes, v) - 1]
    ELSE [raised |-> TRUE, code |-> 0]

UnfittedScaler == [fitted |-> FALSE, feature_names_in_ |-> <<>>, mean_ |-> <<>>, scale_ |-> <<>>]

UnfittedForest ==
    [fitted |-> FALSE, classes_ |-> <<>>, n_features_in_ |-> 0, feat |-> 0, lo |-> 0, hi |-> 0]

ColumnMeans ==
    { [c \in Range(FeatureCols) |->
         CASE c = "player_age" -> 26 [] c = "market_value" -> 50000000
           [] c = "goals" -> 10 [] c = "assists" -> 9 [] c = "minutes_played" -> 2000
           [] c = "position" -> 1 [] c = "club_budget" -> budget
           [] c = "club_league_position" -> 10 [] c = "club_champions_league" -> 0
           [] c = "contract_years_left" -> 2 [] c = "player_wants_move" -> 0
           [] OTHER -> 1] : budget \in {125000000, 175000000} }

ColumnScale(c) ==
    CASE c = "market_value" -> 25000000 [] c = "club_budget" -> 40000000
      [] c = "minutes_played" -> 800 [] c \in {"player_age", "goals", "assists"} -> 5
      [] OTHER -> 1

\* StandardScaler.fit on a frame with these columns: any statistics of the family
StandardScaler_fit(cols) ==
    { [fitted |-> TRUE, feature_names_in_ |-> cols,
       mean_ |-> [i \in 1..Len(cols) |-> m[cols[i]]],
       scale_ |-> [i \in 1..Len(cols) |-> ColumnScale(cols[i])]] : m \in ColumnMeans }

\* StandardScaler.transform of one row
StandardScaler_transform(scaler, X) ==
    [i \in 1..Len(X) |-> (X[i] - scaler.mean_[i]) \div scaler.scale_[i]]

LeafPairs ==
    { <<0, 0>>, <<0, 100>>, <<100, 0>>, <<30, 70>>, <<70, 30>>, <<29, 71>>, <<50, 100>> }

SplitCols == {"position", "club_budget"}

\* RandomForestClassifier.fit on n columns and the label classes present: with
\* one class every leaf holds that class; with two, any stump of the family
RandomForest_fit(cols, classes) ==
    IF Len(classes) < 2
    THEN { [fitted |-> TRUE, classes_ |-> classes, n_features_in_ |-> Len(cols),
            feat |-> 0, lo |-> 100, hi |-> 100] }
    ELSE { [fitted |-> TRUE, classes_ |-> classes, n_features_in_ |-> Len(cols),
            feat |-> f, lo |-> lh[1], hi |-> lh[2]] :
             f \in IF Range(cols) \cap SplitCols = {} THEN {0}
                   ELSE {i \in 1..Len(cols) : cols[i] \in SplitCols},
             lh \in LeafPairs }

\* RandomForestClassifier.predict_proba of one row: one column per class of classes_
predict_proba(model, X_scaled) ==
    LET p == IF model.feat = 0 \/ X_scaled[model.feat] <= 0 THEN model.lo ELSE model.hi
    IN  IF Len(model.classes_) < 2 THEN <<100>> ELSE <<100 - p, p>>

\* RandomForestClassifier.predict of one row: the class of the first largest column
predict(model, X_scaled) ==
    LET row == predict_proba(model, X_scaled)
    IN  IF Len(row) = 2 /\ row[2] > row[1] THEN model.classes_[2] ELSE model.classes_[1]

(***************************************************************************)
(* TransferPredictor (app/model_training.py).  A method is an operator     *)
(* from the object (self) and its arguments to the object afterwards and   *)
(* what the call returned or raised.                                       *)
(***************************************************************************)
NoEncoders == [c \in {} |-> <<>>]

\* model_training.py:16-36
TransferPredictor ==
    [model |-> UnfittedForest, scaler |-> UnfittedScaler, label_encoders |-> NoEncoders,
     feature_names |-> <<>>, big6_clubs |-> big6_clubs]

\* model_training.py:52-60 with the columns in the order of the table
SelectFeaturesTableOrder(columns) == SelectSeq(columns, LAMBDA c : c \in Range(FeatureCols))

\* model_training.py:52-60
SelectFeatures(columns) == SelectSeq(FeatureCols, LAMBDA c : c \in Range(columns))

\* model_training.py:38-66
prepare_data(self, df) ==
    LET cats == {c \in Range(categorical_cols) : c \in Range(df.columns)}
        encoders == [c \in DOMAIN self.label_encoders \cup cats |->
                       IF c \in cats THEN LabelEncoder_fit(df.positions)
                       ELSE self.label_encoders[c]]
        feature_cols == SelectFeatures(df.columns)
    IN  [self |-> [self EXCEPT !.label_encoders = encoders, !.feature_names = feature_cols],
         X |-> [columns |-> feature_cols],
         y |-> [present |-> "transfer_happened" \in Range(df.columns),
                n0 |-> df.n0, n1 |-> df.n1]]

\* train_test_split(X, y, test_size=0.2, random_state=42, stratify=y), model_training.py:77-79:
\* the sizes of the two parts and the checks of the stratified split
train_test_split(y) ==
    LET n == y.n0 + y.n1
        n_test == (n + 4) \div 5
        n_train == n - n_test
        classes == SelectSeq(<<0, 1>>, LAMBDA c : IF c = 0 THEN y.n0 > 0 ELSE y.n1 > 0)
        least == IF y.n0 = 0 THEN y.n1 ELSE IF y.n1 = 0 THEN y.n0
                 ELSE IF y.n0 < y.n1 THEN y.n0 ELSE y.n1
    IN  [raised |-> \/ n_train = 0
                    \/ least < 2
                    \/ n_train < Len(classes)
                    \/ n_test < Len(classes),
         classes |-> classes]

\* The results a fit of scaler and classifier can have for this table, when train gets that far
TrainFits(self, df) ==
    LET prep == prepare_data(self, df)
        split == train_test_split(prep.y)
    IN  IF prep.y.present /\ ~split.raised /\ Len(prep.X.columns) > 0
        THEN StandardScaler_fit(prep.X.columns)
               \X RandomForest_fit(prep.X.columns, split.classes)
        ELSE {<<UnfittedScaler, UnfittedForest>>}

\* model_training.py:73-74
LabelMissing(y) == ~y.present

\* model_training.py:68-106; fit is what scaler.fit_transform and model.fit compute
train(self, df, fit) ==
    LET prep == prepare_data(self, df)
        s1 == prep.self
        split == train_test_split(prep.y)
    IN  IF LabelMissing(prep.y)
        THEN [self |-> s1, raised |-> TRUE, exc |-> "ValueError", X_columns |-> prep.X.columns]
        ELSE IF split.raised
        THEN [self |-> s1, raised |-> TRUE, exc |-> "ValueError", X_columns |-> prep.X.columns]
        ELSE IF Len(prep.X.columns) = 0
        THEN \* StandardScaler.fit resets the scaler, then rejects a frame of no columns
             [self |-> [s1 EXCEPT !.scaler = UnfittedScaler], raised |-> TRUE,
              exc |-> "ValueError", X_columns |-> prep.X.columns]
        ELSE [self |-> [s1 EXCEPT !.scaler = fit[1], !.model = fit[2]], raised |-> FALSE,
              exc |-> "", X_columns |-> prep.X.columns]

\* dict.get(key, default)
Get(d, k, default) == IF k \in DOMAIN d THEN d[k] ELSE default

\* model_training.py:111-116
ClubInfo(self, club_name) == Get(self.big6_clubs, club_name, FallbackClub)

\* model_training.py:137-144 without the except branch: an unseen value raises
encode_categoricals_noexcept(self, input_data) ==
    LET tr(c) == LabelEncoder_transform(self.label_encoders[c], input_data[c])
        cols == DOMAIN self.label_encoders \cap DOMAIN input_data
    IN  [self |-> self,
         raised |-> \E c \in cols : tr(c).raised,
         input_df |-> [c \in DOMAIN input_data |->
                         IF c \in cols THEN tr(c).code ELSE input_data[c]]]

\* model_training.py:137-144 with the encoder refitted to hold an unseen value
encode_categoricals_refit(self, input_data) ==
    LET tr(c) == LabelEncoder_transform(self.label_encoders[c], input_data[c])
        cols == DOMAIN self.label_encoders \cap DOMAIN input_data
    IN  [self |-> [self EXCEPT !.label_encoders =
                     [c \in DOMAIN self.label_encoders |->
                        IF c \in cols /\ tr(c).raised
                        THEN Append(self.label_encoders[c], input_data[c])
                        ELSE self.label_encoders[c]]],
         raised |-> FALSE,
         input_df |-> [c \in DOMAIN input_data |->
                         IF c \in cols THEN (IF tr(c).raised THEN 0 ELSE tr(c).code)
                         ELSE input_data[c]]]

\* model_training.py:137-144
encode_categoricals(self, input_data) ==
    LET tr(c) == LabelEncoder_transform(self.label_encoders[c], input_data[c])
        cols == DOMAIN self.label_encoders \cap DOMAIN input_data
    IN  [self |-> self,
         raised |-> FALSE,
         input_df |-> [c \in DOMAIN input_data |->
                         IF c \in cols THEN (IF tr(c).raised THEN 0 ELSE tr(c).code)
                         ELSE input_data[c]]]

\* model_training.py:159 with the bounds counted as High
ConfidenceInclusive(probability) ==
    IF probability >= HighAbove \/ probability <= HighBelow THEN "High" ELSE "Medium"

\* model_training.py:159
Confidence(probability) ==
    IF probability > HighAbove \/ probability < HighBelow THEN "High" ELSE "Medium"

\* model_training.py:118-132, the row built for the player and the club's profile
InputData(player_data, club_info) ==
    [c \in Range(FeatureCols) |->
       CASE c = "player_age" -> Get(player_data, "age", 25)
         [] c = "market_value" -> Get(player_data, "market_value", 20000000)
         [] c = "goals" -> Get(player_data, "goals", 5)
         [] c = "assists" -> Get(player_data, "assists", 3)
         [] c = "minutes_played" -> Get(player_data, "minutes_played", 2000)
         [] c = "position" -> Get(player_data, "position", "Midfielder")
         [] c = "club_budget" -> club_info.budget
         [] c = "club_league_position" -> club_info.league_pos
         [] c = "club_champions_league" -> club_info.cl_qualified
         [] c = "contract_years_left" -> Get(player_data, "contract_years_left", 2)
         [] c = "player_wants_move" -> Get(player_data, "player_wants_move", 0)
         [] OTHER -> Get(player_data, "position_need", 1)]

\* model_training.py:146-147, X = input_df[self.feature_names]
SelectColumns(input_df, names) == [i \in 1..Len(names) |-> input_df[names[i]]]

\* model_training.py:140-154: what the call raises, "" when it returns; proba is
\* the row predict_proba gives
Failure(s1, enc_raised, X, proba) ==
    CASE enc_raised -> "ValueError: unseen label"
      [] ~s1.scaler.fitted -> "NotFittedError"
      [] \E c \in Range(s1.feature_names) \cap Range(categorical_cols) :
             c \notin DOMAIN s1.label_encoders -> "ValueError: not a number"
      [] s1.scaler.feature_names_in_ # s1.feature_names -> "ValueError: feature names"
      [] ~s1.model.fitted -> "NotFittedError"
      [] s1.model.n_features_in_ # Len(X) -> "ValueError: features"
      [] Len(proba) < 2 -> "IndexError"
      [] OTHER -> ""

\* model_training.py:152-160
Result(s1, input_data, X, X_scaled, proba, failure) ==
    IF failure # ""
    THEN [self |-> s1, raised |-> TRUE, exc |-> failure, input_data |-> input_data,
          X_columns |-> SubSeq(s1.feature_names, 1, Len(X)),
          X |-> X, transfer_probability |-> 0, prediction |-> 0, confidence |-> ""]
    ELSE [self |-> s1, raised |-> FALSE, exc |-> "", input_data |-> input_data,
          X_columns |-> s1.feature_names, X |-> X,
          transfer_probability |-> proba[2],
          prediction |-> predict(s1.model, X_scaled),
          confidence |-> Confidence(proba[2])]

\* model_training.py:149-154
PredictScaled(s1, enc_raised, input_data, X, X_scaled) ==
    Result(s1, input_data, X, X_scaled, predict_proba(s1.model, X_scaled),
           Failure(s1, enc_raised, X, predict_proba(s1.model, X_scaled)))

\* model_training.py:146-150
PredictVector(s1, enc_raised, input_data, X) ==
    PredictScaled(s1, enc_raised, input_data, X, StandardScaler_transform(s1.scaler, X))

\* model_training.py:137-147
PredictEncoded(enc, input_data) ==
    PredictVector(enc.self, enc.raised, input_data,
                  IF enc.raised THEN <<>>
                  ELSE SelectColumns(enc.input_df, enc.self.feature_names))

\* model_training.py:118-144
PredictInput(self, input_data) ==
    PredictEncoded(encode_categoricals(self, input_data), input_data)

\* model_training.py:108-160
predict_transfer_probability(self, player_data, club_name) ==
    PredictInput(self, InputData(player_data, ClubInfo(self, club_name)))

(***************************************************************************)
(* The artifact directory models/: four files, each missing, unreadable    *)
(* or holding what save_model wrote.                                       *)
(***************************************************************************)
Files == {"transfer_model.pkl", "scaler.pkl", "label_encoders.pkl", "model_config.json"}

Missing == [state |-> "missing"]

Corrupt == [state |-> "corrupt"]

EmptyDisk == [f \in Files |-> Missing]

\* joblib.dump(obj, file): the pickle of the object
Pickle(obj) == [state |-> "ok", format |-> "joblib", payload |-> obj]

\* joblib.load(file): the object the pickle holds
Unpickle(file) == file.payload

\* json.dump / json.load (model_training.py:187-191, 201-204).  A JSON text is
\* modelled by its value tree: a string, a number, an array of values or an
\* object whose member names are strings.
JsonString(s) == [json |-> "string", v |-> s]

JsonNumber(n) == [json |-> "number", v |-> n]

JsonArray(items) == [json |-> "array", v |-> items]

JsonObject(members) == [json |-> "object", v |-> members]

\* json.dump({'feature_names': self.feature_names, 'big6_clubs': self.big6_clubs}, f)
JsonConfig(feature_names, clubs) ==
    [state |-> "ok", format |-> "json",
     payload |->
       JsonObject(
         [feature_names |->
            JsonArray([i \in 1..Len(feature_names) |-> JsonString(feature_names[i])]),
          big6_clubs |->
            JsonObject([c \in DOMAIN clubs |->
                          JsonObject([k \in DOMAIN clubs[c] |-> JsonNumber(clubs[c][k])])])])]

\* config['feature_names'] with the order of the array lost
ConfigFeatureNamesReversed(payload) ==
    LET a == payload.v.feature_names.v
    IN  Reverse([i \in 1..Len(a) |-> a[i].v])

\* config = json.load(f); config['feature_names']: the array as a list of str
ConfigFeatureNames(payload) ==
    LET a == payload.v.feature_names.v
    IN  [i \in 1..Len(a) |-> a[i].v]

\* config = json.load(f); config['big6_clubs']: the object as a dict of dicts
ConfigClubs(payload) ==
    LET o == payload.v.big6_clubs.v
    IN  [c \in DOMAIN o |-> [k \in DOMAIN o[c].v |-> o[c].v[k].v]]

\* model_training.py:177-193
save_model(self, d) ==
    [f \in Files |->
       CASE f = "transfer_model.pkl" -> Pickle(self.model)
         [] f = "scaler.pkl" -> Pickle(self.scaler)
         [] f = "label_encoders.pkl" -> Pickle(self.label_encoders)
         [] OTHER -> JsonConfig(self.feature_names, self.big6_clubs)]

\* What reading a file raises, "" when it is read
ReadError(file) ==
    CASE file.state = "missing" -> "FileNotFoundError"
      [] file.state = "corrupt" -> "CorruptError"
      [] OTHER -> ""

\* model_training.py:195-206: the four files are read in turn, each assigned as it is read
load_model(self, d) ==
    LET e1 == ReadError(d["transfer_model.pkl"])
        s1 == IF e1 = "" THEN [self EXCEPT !.model = Unpickle(d["transfer_model.pkl"])] ELSE self
        e2 == ReadError(d["scaler.pkl"])
        s2 == IF e2 = "" THEN [s1 EXCEPT !.scaler = Unpickle(d["scaler.pkl"])] ELSE s1
        e3 == ReadError(d["label_encoders.pkl"])
        s3 == IF e3 = "" THEN [s2 EXCEPT !.label_encoders = Unpickle(d["label_encoders.pkl"])]
              ELSE s2
        e4 == ReadError(d["model_config.json"])
        s4 == IF e4 = ""
              THEN [s3 EXCEPT
                      !.feature_names = ConfigFeatureNames(d["model_config.json"].payload),
                      !.big6_clubs = ConfigClubs(d["model_config.json"].payload)]
              ELSE s3
    IN  CASE e1 # "" -> [self |-> self, raised |-> TRUE, exc |-> e1]
          [] e2 # "" -> [self |-> s1, raised |-> TRUE, exc |-> e2]
          [] e3 # "" -> [self |-> s2, raised |-> TRUE, exc |-> e3]
          [] e4 # "" -> [self |-> s3, raised |-> TRUE, exc |-> e4]
          [] OTHER -> [self |-> s4, raised |-> FALSE, exc |-> ""]

(***************************************************************************)
(* The service (app/main.py).                                              *)
(***************************************************************************)
\* main.py:14, the global before startup
None == [isNone |-> TRUE]

\* main.py:16-47 with the failure logged and not raised again
lifespan_swallow(d, fit) ==
    LET p0 == TransferPredictor
    IN  IF d["transfer_model.pkl"].state = "missing"
        THEN LET t == train(p0, generate_mock_data, fit)
             IN  [predictor |-> t.self, disk |-> IF t.raised THEN d ELSE save_model(t.self, d),
                  started |-> TRUE]
        ELSE [predictor |-> load_model(p0, d).self, disk |-> d, started |-> TRUE]

\* main.py:16-47: started is whether the generator reached its yield
lifespan(d, fit) ==
    LET p0 == TransferPredictor
    IN  IF d["transfer_model.pkl"].state = "missing"
        THEN LET t == train(p0, generate_mock_data, fit)
             IN  IF t.raised
                 THEN [predictor |-> t.self, disk |-> d, started |-> FALSE]
                 ELSE [predictor |-> t.self, disk |-> save_model(t.self, d), started |-> TRUE]
        ELSE LET l == load_model(p0, d)
             IN  [predictor |-> l.self, disk |-> d, started |-> ~l.raised]

\* main.py:168-178, main.py:261-271
PlayerDict(player) ==
    [k \in {"age", "market_value", "goals", "assists", "minutes_played", "position",
            "contract_years_left", "player_wants_move", "position_need"} |->
       CASE k = "age" -> player.age
         [] k = "market_value" -> player.market_value
         [] k = "goals" -> player.goals
         [] k = "assists" -> player.assists
         [] k = "minutes_played" -> player.minutes_played
         [] k = "position" -> player.position
         [] k = "contract_years_left" -> player.contract_years_left
         [] k = "player_wants_move" -> player.player_wants_move
         [] OTHER -> player.position_need]

Rejected(pred, code) == [status |-> code, self |-> pred, body |-> <<>>]

\* main.py:163-164 without the registry check
UnknownClubAccepted(pred, club) == FALSE

\* main.py:163-164
UnknownClub(pred, club) == club \notin DOMAIN pred.big6_clubs

\* main.py:183-232, the answer built from the result of the prediction
TransferResponse(pred, player, club, result, market_fit, position_priority) ==
    IF result.raised THEN Rejected(result.self, 500)
    ELSE [status |-> 200, self |-> result.self,
          body |-> [player_name |-> player.name,
                    target_club |-> club,
                    transfer_probability |-> result.transfer_probability,
                    prediction |-> IF result.prediction = 1 THEN "Likely" ELSE "Unlikely",
                    confidence |-> result.confidence,
                    reasoning |->
                        <<IF 22 <= player.age /\ player.age <= 28 THEN "prime age"
                          ELSE IF player.age > 30 THEN "advanced age" ELSE "young">>
                        \o (IF player.goals > 15 \/ player.assists > 10
                            THEN <<"strong output">> ELSE <<>>)
                        \o (IF player.contract_years_left <= 1
                            THEN <<"contract favorable">> ELSE <<>>)
                        \o <<market_fit>>
                        \o (IF position_priority >= 2 THEN <<"priority position">> ELSE <<>>),
                    market_fit |-> market_fit,
                    position_priority |-> position_priority]]

\* main.py:202-212: market_value <= club_budget * 0.3, and * 0.5, in tenths
MarketFit(market_value, club_budget) ==
    IF 10 * market_value <= 3 * club_budget THEN "Excellent fit"
    ELSE IF 10 * market_value <= 5 * club_budget THEN "Good fit"
    ELSE "Expensive"

\* main.py:157-236
predict_transfer(pred, request) ==
    IF pred = None THEN Rejected(pred, 503)
    ELSE IF UnknownClub(pred, request.target_club) THEN Rejected(pred, 400)
    ELSE IF request.target_club \notin DOMAIN pred.big6_clubs
    THEN \* main.py:203 raises KeyError inside the try, main.py:234-236 answers 500
         Rejected(predict_transfer_probability(pred, PlayerDict(request.player),
                                               request.target_club).self, 500)
    ELSE TransferResponse(pred, request.player, request.target_club,
           predict_transfer_probability(pred, PlayerDict(request.player), request.target_club),
           MarketFit(request.player.market_value, pred.big6_clubs[request.target_club].budget),
           PriorityOf(get_position_priorities(request.target_club), request.player.position))

\* main.py:298-299 done as an ascending sort that is then reversed: ties end up reversed
InsertDescReversed(sorted, e) ==
    LET k == Cardinality({i \in 1..Len(sorted) :
                            sorted[i].transfer_probability > e.transfer_probability})
    IN  SubSeq(sorted, 1, k) \o <<e>> \o SubSeq(sorted, k + 1, Len(sorted))

\* list.sort(key=..., reverse=True), main.py:298-299: an entry goes behind every entry
\* whose probability is at least its own, so equal entries keep their order
InsertDesc(sorted, e) ==
    LET k == Cardinality({i \in 1..Len(sorted) :
                            sorted[i].transfer_probability >= e.transfer_probability})
    IN  SubSeq(sorted, 1, k) \o <<e>> \o SubSeq(sorted, k + 1, Len(sorted))

RECURSIVE SortDesc(_)
\* main.py:298-299
SortDesc(predictions) ==
    IF predictions = <<>> THEN <<>>
    ELSE InsertDesc(SortDesc(SubSeq(predictions, 1, Len(predictions) - 1)),
                    predictions[Len(predictions)])

\* main.py:249-251
Skipped(pred, club) == club \notin DOMAIN pred.big6_clubs

\* main.py:273-292, one pass of the loop for a club of the registry: acc holds
\* predictions, best_probability, best_club and the predictor as the calls leave it
LoopBody(acc, player, club, result) ==
    IF result.raised
    THEN [acc EXCEPT !.self = result.self]
    ELSE [self |-> result.self,
          predictions |->
              Append(acc.predictions,
                     [player_name |-> player.name,
                      target_club |-> club,
                      transfer_probability |-> result.transfer_probability,
                      prediction |-> IF result.prediction = 1 THEN "Likely" ELSE "Unlikely",
                      confidence |-> result.confidence,
                      reasoning |-> <<"Probability", result.transfer_probability>>,
                      market_fit |-> "TBD",
                      position_priority |->
                          PriorityOf(get_position_priorities(club), player.position)]),
          best_probability |-> IF result.transfer_probability > acc.best_probability
                               THEN result.transfer_probability ELSE acc.best_probability,
          best_club |-> IF result.transfer_probability > acc.best_probability
                        THEN club ELSE acc.best_club]

RECURSIVE MultiClubLoop(_, _, _, _)
\* main.py:245-296: the loop over request.clubs from index i on
MultiClubLoop(player, clubs, i, acc) ==
    IF i > Len(clubs) THEN acc
    ELSE MultiClubLoop(player, clubs, i + 1,
           IF Skipped(acc.self, clubs[i]) THEN acc
           ELSE LoopBody(acc, player, clubs[i],
                  predict_transfer_probability(acc.self, PlayerDict(player), clubs[i])))

\* main.py:298-314
MultiClubResponse(request, acc) ==
    [status |-> 200, self |-> acc.self,
     body |-> [player_name |-> request.player.name,
               predictions |-> SortDesc(acc.predictions),
               best_fit |-> acc.best_club,
               summary |-> <<IF acc.best_probability > 70 THEN "excellent"
                             ELSE IF acc.best_probability > 50 THEN "good" ELSE "limited",
                             acc.best_club, acc.best_probability>>]]

\* main.py:239-314
predict_multi_club(pred, request) ==
    IF pred = None THEN Rejected(pred, 503)
    ELSE MultiClubResponse(request,
           MultiClubLoop(request.player, request.clubs, 1,
             [self |-> pred, predictions |-> <<>>, best_probability |-> 0,
              best_club |-> ""]))

(***************************************************************************)
(* The service and the training script as a state machine.                 *)
(*   predictor  main.py's global (None before startup)                     *)
(*   disk       the files of models/                                       *)
(*   phase      "boot" before startup, "serving" after the lifespan's      *)
(*              yield, "failed" when startup raised                        *)
(*   out        the call being answered, Idle between calls                *)
(***************************************************************************)
Idle == [op |-> "idle"]

InputTables == {df \in Tables : WellFormed(df)} \cup {generate_mock_data}

SingleRequests == [player : Players, target_club : RequestClubs]

MultiRequests == [player : Players, clubs : SeqsUpTo(RequestClubs, MaxClubs)]

Init ==
    /\ predictor = None
    /\ disk = EmptyDisk
    /\ phase = "boot"
    /\ out = Idle
    /\ np_random = ProcessStart(SampleStream, 0)

\* model_training.py:208-227, python model_training.py: the table is what
\* transfer_data.csv holds (data_collection.py:174-182), the generated one when
\* there is no file.  A run that raises in train writes nothing.
RunTrainingScript ==
    /\ phase = "boot" /\ out = Idle /\ disk = EmptyDisk
    /\ \E df \in InputTables :
         \E fit \in TrainFits(TransferPredictor, df) :
           LET t == train(TransferPredictor, df, fit)
           IN  /\ ~t.raised
               /\ disk' = save_model(t.self, disk)
    /\ UNCHANGED <<predictor, phase, out, np_random>>

Damaged(d) == {f \in Files : d[f].state \in {"missing", "corrupt"}}

\* The environment: a file of a saved artifact is deleted or garbled before it is loaded
Damage ==
    /\ phase \in {"boot", "artifact"} /\ out = Idle
    /\ Damaged(disk) # Files
    /\ Cardinality(Damaged(disk)) < MaxDamage
    /\ \E f \in Files \ Damaged(disk) : \E bad \in {Missing, Corrupt} :
         disk' = [disk EXCEPT ![f] = bad]
    /\ UNCHANGED <<predictor, phase, out, np_random>>

\* main.py:16-47
Lifespan ==
    /\ phase = "boot" /\ out = Idle
    /\ \E fit \in (IF disk["transfer_model.pkl"].state = "missing"
                   THEN TrainFits(TransferPredictor, generate_mock_data)
                   ELSE {<<UnfittedScaler, UnfittedForest>>}) :
         LET r == lifespan(disk, fit)
         IN  /\ predictor' = r.predictor
             /\ disk' = r.disk
             /\ phase' = IF r.started THEN "serving" ELSE "failed"
    /\ np_random' = IF disk["transfer_model.pkl"].state = "missing"
                    THEN generate_mock_rows(np_random).np_random  \* main.py:34
                    ELSE np_random
    /\ UNCHANGED out

\* main.py:157-236, POST /predict
PredictTransfer ==
    /\ phase \in {"boot", "serving"} /\ out = Idle
    /\ \E request \in SingleRequests :
         LET r == predict_transfer(predictor, request)
         IN  /\ predictor' = r.self
             /\ out' = [op |-> "predict_transfer", request |-> request,
                        status |-> r.status, body |-> r.body]
    /\ UNCHANGED <<disk, phase, np_random>>

\* main.py:239-314, POST /predict/multi-club
PredictMultiClub ==
    /\ phase \in {"boot", "serving"} /\ out = Idle
    /\ \E request \in MultiRequests :
         LET r == predict_multi_club(predictor, request)
         IN  /\ predictor' = r.self
             /\ out' = [op |-> "predict_multi_club", request |-> request,
                        status |-> r.status, body |-> r.body]
    /\ UNCHANGED <<disk, phase, np_random>>

\* The answer is sent
Respond ==
    /\ out # Idle
    /\ out' = Idle
    /\ UNCHANGED <<predictor, disk, phase, np_random>>

Next ==
    \/ RunTrainingScript
    \/ Damage
    \/ Lifespan
    \/ PredictTransfer
    \/ PredictMultiClub
    \/ Respond

Spec == Init /\ [][Next]_vars

(***************************************************************************)
(* The TransferPredictor object called directly: train on any table, then  *)
(* predict_transfer_probability for any player and club name.              *)
(***************************************************************************)
InitObject ==
    /\ predictor = TransferPredictor
    /\ disk = EmptyDisk
    /\ phase = "object"
    /\ out = Idle
    /\ np_random = ProcessStart(SampleStream, 0)

\* model_training.py:68-106
TrainCall ==
    /\ out = Idle
    /\ \E df \in InputTables :
         \E fit \in TrainFits(predictor, df) :
           LET t == train(predictor, df, fit)
           IN  /\ predictor' = t.self
               /\ out' = [op |-> "train", df |-> df, raised |-> t.raised, exc |-> t.exc,
                          X_columns |-> t.X_columns]
    /\ UNCHANGED <<disk, phase, np_random>>

\* model_training.py:108-160
PredictCall ==
    /\ out = Idle
    /\ \E player \in Players : \E club \in RequestClubs :
         LET r == predict_transfer_probability(predictor, PlayerDict(player), club)
         IN  /\ predictor' = r.self
             /\ out' = [op |-> "predict", player |-> player, club |-> club,
                        raised |-> r.raised, exc |-> r.exc, input_data |-> r.input_data,
                        X_columns |-> r.X_columns, X |-> r.X,
                        transfer_probability |-> r.transfer_probability,
                        prediction |-> r.prediction, confidence |-> r.confidence]
    /\ UNCHANGED <<disk, phase, np_random>>

\* The call has returned or raised
Return ==
    /\ out # Idle
    /\ out' = Idle
    /\ UNCHANGED <<predictor, disk, phase, np_random>>

NextObject ==
    \/ TrainCall
    \/ PredictCall
    \/ Return

SpecObject == InitObject /\ [][NextObject]_vars

(***************************************************************************)
(* The artifact directory used directly: a predictor is trained, saved     *)
(* with save_model, and the directory is loaded with load_model, into the  *)
(* predictor itself or into a fresh TransferPredictor().                   *)
(***************************************************************************)
ArtifactTables ==
    { df \in InputTables :
        /\ df.columns \in {MockColumns,
                            <<"position_need", "position", "club_budget", "player_age",
                              "transfer_happened">>}
        /\ df.n0 \in {0, MaxCount} /\ df.n1 = MaxCount }

InitArtifact ==
    /\ predictor = TransferPredictor
    /\ disk = EmptyDisk
    /\ phase = "artifact"
    /\ out = Idle
    /\ np_random = ProcessStart(SampleStream, 0)

\* model_training.py:68-106, before anything is saved
TrainArtifact ==
    /\ out = Idle /\ disk = EmptyDisk
    /\ \E df \in ArtifactTables :
         \E fit \in TrainFits(predictor, df) :
           LET t == train(predictor, df, fit)
           IN  /\ predictor' = t.self
               /\ out' = [op |-> "train", df |-> df, raised |-> t.raised, exc |-> t.exc,
                          X_columns |-> t.X_columns]
    /\ UNCHANGED <<disk, phase, np_random>>

\* model_training.py:177-193
SaveCall ==
    /\ out = Idle
    /\ disk' = save_model(predictor, disk)
    /\ out' = [op |-> "save_model"]
    /\ UNCHANGED <<predictor, phase, np_random>>

\* model_training.py:220, main.py:24: predictor = TransferPredictor()
NewPredictor ==
    /\ out = Idle /\ predictor # TransferPredictor
    /\ predictor' = TransferPredictor
    /\ UNCHANGED <<disk, phase, out, np_random>>

\* model_training.py:195-206, predictor.load_model()
LoadCall ==
    /\ out = Idle
    /\ LET l == load_model(predictor, disk)
       IN  /\ predictor' = l.self
           /\ out' = [op |-> "load_model", raised |-> l.raised, exc |-> l.exc]
    /\ UNCHANGED <<disk, phase, np_random>>

\* main.py:24, main.py:40: loaded = TransferPredictor(); loaded.load_model()
LoadFresh ==
    /\ out = Idle
    /\ LET l == load_model(TransferPredictor, disk)
       IN  out' = [op |-> "load_fresh", loaded |-> l.self, raised |-> l.raised,
                   exc |-> l.exc]
    /\ UNCHANGED <<predictor, disk, phase, np_random>>

NextArtifact ==
    \/ TrainArtifact
    \/ SaveCall
    \/ Damage
    \/ NewPredictor
    \/ LoadCall
    \/ LoadFresh
    \/ Return

SpecArtifact == InitArtifact /\ [][NextArtifact]_vars

(***************************************************************************)
(* The generator called directly, in a process where other code draws      *)
(* from np.random as well.                                                 *)
(***************************************************************************)
GeneratorCall == "generate_mock_data"

InitGenerator ==
    /\ predictor = None
    /\ disk = EmptyDisk
    /\ phase = "generator"
    /\ out = Idle
    /\ \E mt \in Streams : \E pos \in 0..(MaxRows - 1) : np_random = ProcessStart(mt, pos)

\* data_collection.py:76-167; before is the generator state the call found,
\* call is 2 when the call follows another call of generate_mock_data
GenerateMockData ==
    /\ phase = "generator"
    /\ out = Idle \/ out.op = GeneratorCall
    /\ LET g == generate_mock_rows(np_random)
       IN  /\ out' = [op |-> GeneratorCall, df |-> g.df, draws |-> g.draws,
                      before |-> np_random.pos,
                      call |-> IF out.op = GeneratorCall THEN 2 ELSE 1]
           /\ np_random' = g.np_random
    /\ UNCHANGED <<predictor, disk, phase>>

\* Any other code of the process draws from np.random
ConsumeRandom ==
    /\ phase = "generator"
    /\ np_random' = Advance(np_random, 1)
    /\ UNCHANGED <<predictor, disk, phase, out>>

\* The dataset is dropped
Discard ==
    /\ phase = "generator" /\ out # Idle
    /\ out' = Idle
    /\ UNCHANGED <<predictor, disk, phase, np_random>>

NextGenerator ==
    \/ GenerateMockData
    \/ ConsumeRandom
    \/ Discard

SpecGenerator == InitGenerator /\ [][NextGenerator]_vars

(***************************************************************************)
(* Properties.                                                             *)
(***************************************************************************)
MultiAnswered == out.op = "predict_multi_club" /\ out.status = 200

Registered(club) == club \in DOMAIN big6_clubs

\* C1: whenever a multi-club request returns a non-empty list, best_fit is the
\* club of the first entry of the sorted list (ties and all-zero probabilities
\* included).
C1_BestFitIsFirstEntry ==
    (MultiAnswered /\ out.body.predictions # <<>>)
        => out.body.best_fit = out.body.predictions[1].target_club

\* C2: a multi-club request is answered, and its list holds exactly one entry
\* for each occurrence of a registry club in the request and none for any
\* other name.
C2_OneEntryPerRegistryClub ==
    (out.op = "predict_multi_club" /\ phase = "serving")
        => /\ out.status = 200
           /\ Len(out.body.predictions)
                = Cardinality({i \in 1..Len(out.request.clubs) :
                                 Registered(out.request.clubs[i])})
           /\ \A i \in 1..Len(out.body.predictions) :
                Registered(out.body.predictions[i].target_club)

ClubsOf(predictions) == [i \in 1..Len(predictions) |-> predictions[i].target_club]

\* C3: the list of a multi-club answer is in non-increasing order of
\* probability, and the entries of one probability are, in order, the request's
\* clubs that got that probability.
C3_SortedDescendingStable ==
    MultiAnswered =>
        LET preds == out.body.predictions
        IN  /\ \A i, j \in 1..Len(preds) :
                 i < j => preds[i].transfer_probability >= preds[j].transfer_probability
            /\ \A k \in 1..Len(preds) :
                 ClubsOf(SelectSeq(preds, LAMBDA e :
                           e.transfer_probability = preds[k].transfer_probability))
                   = SelectSeq(out.request.clubs, LAMBDA c :
                       \E e \in Range(preds) :
                          /\ e.target_club = c
                          /\ e.transfer_probability = preds[k].transfer_probability)

\* A list of three different clubs, the first two tied, that the sort reordered
C3_Witness ==
    /\ MultiAnswered
    /\ Len(out.body.predictions) = 3
    /\ out.body.predictions[1].transfer_probability
         = out.body.predictions[2].transfer_probability
    /\ out.body.predictions[2].transfer_probability
         > out.body.predictions[3].transfer_probability
    /\ out.body.predictions[1].target_club # out.body.predictions[2].target_club
    /\ out.body.predictions[3].target_club = out.request.clubs[1]

\* C4: a result returned by predict_transfer_probability has a probability in
\* [0,1] and the confidence 'High' exactly when the probability is above 0.7 or
\* below 0.3, 'Medium' otherwise (so at 0.3 and at 0.7), never 'Low'.
C4_ProbabilityAndConfidence ==
    (out.op = "predict" /\ ~out.raised)
        => /\ 0 <= out.transfer_probability /\ out.transfer_probability <= 100
           /\ out.confidence \in {"High", "Medium"}
           /\ out.confidence = "High"
                <=> (out.transfer_probability > 70 \/ out.transfer_probability < 30)

\* A result at the bound 0.3, which is Medium
C4_Witness ==
    /\ out.op = "predict" /\ ~out.raised
    /\ out.transfer_probability = 30
    /\ out.confidence = "Medium"

FallbackRow(row) ==
    /\ row["club_budget"] = 100000000
    /\ row["club_champions_league"] = 0
    /\ row["club_league_position"] = 10

\* C5 as stated: a single-club request for a club outside the registry is
\* answered with a prediction.
C5_UnknownClubAnswered ==
    (out.op = "predict_transfer" /\ phase = "serving"
       /\ ~Registered(out.request.target_club))
        => out.status = 200

\* C5 as amended: a single-club request for a club outside the registry is
\* rejected with status 400 and no prediction; the fallback profile
\* {100,000,000, 0, 10} is what predict_transfer_probability builds its row
\* from when it is called with such a name.
C5_UnknownClubRejected ==
    /\ (out.op = "predict_transfer" /\ phase = "serving"
          /\ ~Registered(out.request.target_club))
         => out.status = 400 /\ out.body = <<>>
    /\ phase = "serving"
         => \A player \in Players : \A club \in RequestClubs :
              ~Registered(club)
                => FallbackRow(predict_transfer_probability(
                                 predictor, PlayerDict(player), club).input_data)

C5_Witness ==
    /\ out.op = "predict_transfer" /\ phase = "serving"
    /\ out.request.target_club = "Unknown FC"
    /\ out.status = 400

PositionClasses == predictor.label_encoders["position"]

UnseenPosition ==
    /\ out.op = "predict"
    /\ "position" \in DOMAIN predictor.label_encoders
    /\ out.player.position \notin Range(PositionClasses)

Usable ==
    /\ predictor.scaler.fitted /\ predictor.model.fitted
    /\ predictor.scaler.feature_names_in_ = predictor.feature_names
    /\ predictor.model.n_features_in_ = Len(predictor.feature_names)
    /\ Len(predictor.model.classes_) = 2

Outcome(r) == <<r.raised, r.exc, r.transfer_probability, r.prediction, r.confidence>>

\* C6: a position the fitted encoder never saw does not make
\* predict_transfer_probability fail: the position feature of the vector is 0,
\* the call ends as it does for the position of code 0, and on a predictor with
\* a fitted scaler and a fitted two-class classifier it returns a result.
C6_UnseenPositionFallsBack ==
    UnseenPosition =>
        /\ out.exc # "ValueError: unseen label"
        /\ Len(out.X) = Len(predictor.feature_names)
        /\ \A i \in 1..Len(out.X) : predictor.feature_names[i] = "position" => out.X[i] = 0
        /\ PositionClasses # <<>>
             => Outcome(out)
                  = Outcome(predict_transfer_probability(predictor,
                      PlayerDict([out.player EXCEPT !.position = PositionClasses[1]]),
                      out.club))
        /\ Usable => ~out.raised /\ out.confidence \in {"High", "Medium"}

C6_Witness ==
    /\ UnseenPosition
    /\ out.player.position = "Winger"
    /\ ~out.raised
    /\ \E i \in 1..Len(out.X) : predictor.feature_names[i] = "position" /\ out.X[i] = 0

CanonicalOrder(names) ==
    \A i, j \in 1..Len(names) :
       i < j => /\ names[i] \in Range(FeatureCols) /\ names[j] \in Range(FeatureCols)
                /\ IndexOf(FeatureCols, names[i]) < IndexOf(FeatureCols, names[j])

\* C7: after train on any table, feature_names are the feature columns the
\* table has, in the canonical order, and the vectors of the training rows and
\* of every later inference row have exactly those columns in that order.
C7_FeatureOrder ==
    /\ out.op = "train"
         => /\ Range(predictor.feature_names)
                 = Range(out.df.columns) \cap Range(FeatureCols)
            /\ CanonicalOrder(predictor.feature_names)
            /\ out.X_columns = predictor.feature_names
    /\ out.op = "predict"
         => /\ CanonicalOrder(predictor.feature_names)
            /\ out.X_columns = predictor.feature_names
            /\ Len(out.X) = Len(predictor.feature_names)
            /\ \A i \in 1..Len(out.X) :
                 predictor.feature_names[i] # "position"
                   => out.X[i] = out.input_data[predictor.feature_names[i]]

\* An inference vector after training on the table whose columns are out of order
C7_Witness ==
    /\ out.op = "predict" /\ ~out.raised
    /\ predictor.feature_names = <<"player_age", "position", "club_budget", "position_need">>
    /\ Len(out.X) = 4

\* C8: a prediction call leaves the predictor (classifier, scaler, encoders,
\* feature_names, club registry) as it was, and the predictor only ever changes
\* in the startup step that trains or loads it.
C8_PredictionsLeaveArtifact ==
    /\ [][(out = Idle /\ out' # Idle) => predictor' = predictor]_vars
    /\ [][predictor' # predictor => (phase = "boot" /\ phase' # "boot")]_vars

C8_Witness ==
    /\ MultiAnswered /\ phase = "serving"
    /\ out.request.player.position = "Winger"
    /\ "Unknown FC" \in Range(out.request.clubs)
    /\ Len(out.body.predictions) = 2

ArtifactLoaded ==
    /\ \A f \in Files : disk[f].state = "ok"
    /\ predictor # None
    /\ predictor.model = Unpickle(disk["transfer_model.pkl"])
    /\ predictor.scaler = Unpickle(disk["scaler.pkl"])
    /\ predictor.label_encoders = Unpickle(disk["label_encoders.pkl"])
    /\ predictor.feature_names = ConfigFeatureNames(disk["model_config.json"].payload)
    /\ predictor.big6_clubs = ConfigClubs(disk["model_config.json"].payload)
    /\ predictor.model.fitted /\ predictor.scaler.fitted

PredictionAnswered ==
    out.op \in {"predict_transfer", "predict_multi_club"} /\ out.status = 200

\* C9: a prediction is only answered in the serving state, which is only
\* entered with every component of the artifact saved or loaded; a startup
\* whose load fails ends failed, and a failed startup never serves.
C9_NoServingWithoutArtifact ==
    /\ [](PredictionAnswered => phase = "serving")
    /\ [](phase = "serving" => ArtifactLoaded)
    /\ [][(phase = "boot" /\ disk["transfer_model.pkl"].state # "missing"
             /\ Damaged(disk) # {}) => phase' # "serving"]_vars
    /\ [][phase = "failed" => phase' = "failed"]_vars

\* A startup that failed with the classifier read and a later file not
C9_Witness ==
    /\ phase = "failed"
    /\ predictor.model.fitted
    /\ ~predictor.scaler.fitted

\* C10: train raises whenever the table has no transfer_happened column or its
\* labels hold fewer than two classes.
C10_TrainRejectsDegenerateLabels ==
    (out.op = "train"
       /\ \/ "transfer_happened" \notin Range(out.df.columns)
          \/ out.df.n0 = 0
          \/ out.df.n1 = 0)
        => out.raised

Probes == Players \X RequestClubs

\* The directory holds what save_model writes for the predictor
SavedFrom(self, d) == d = save_model(self, d)

\* C11: when the directory holds what the predictor saved, load_model into a
\* fresh predictor succeeds and restores the same classifier, scaler, encoders,
\* feature_names (same order) and club registry, and predict_transfer_probability
\* ends the same way on the loaded predictor as on the original for every probe.
C11_SaveLoadRoundTrip ==
    (out.op = "load_fresh" /\ SavedFrom(predictor, disk))
        => /\ ~out.raised
           /\ out.loaded = predictor
           /\ \A probe \in Probes :
                Outcome(predict_transfer_probability(out.loaded, PlayerDict(probe[1]), probe[2]))
                  = Outcome(predict_transfer_probability(predictor, PlayerDict(probe[1]),
                                                         probe[2]))

\* A trained two-class predictor with reordered columns, saved and loaded afresh
C11_Witness ==
    /\ out.op = "load_fresh" /\ SavedFrom(predictor, disk)
    /\ Usable
    /\ out.loaded.feature_names = <<"player_age", "position", "club_budget", "position_need">>
    /\ ~predict_transfer_probability(out.loaded, PlayerDict(BasePlayer), "Arsenal").raised

Generated == out.op = GeneratorCall

\* C12: every generated row has a transfer_probability between 0 and 1 and
\* transfer_happened = 1 exactly when transfer_probability > 0.6.
C12_ProbabilityAndLabel ==
    Generated =>
        \A i \in 1..Len(out.df) :
           /\ 0 <= out.df[i].transfer_probability /\ out.df[i].transfer_probability <= 100
           /\ out.df[i].transfer_happened \in {0, 1}
           /\ out.df[i].transfer_happened = 1 <=> out.df[i].transfer_probability > 60

\* A dataset with a row at exactly 0.6 (label 0), a row clamped to 1 and a row
\* clamped to 0
C12_Witness ==
    /\ Generated
    /\ \E i \in 1..Len(out.df) :
          out.df[i].transfer_probability = 60 /\ out.df[i].transfer_happened = 0
    /\ \E i \in 1..Len(out.df) :
          /\ out.df[i].transfer_probability = 100
          /\ base_prob(Attributes(out.draws[i])) + normal(out.draws[i].noise) > 100
          /\ out.df[i].transfer_happened = 1

InRange(x, low, high) == low <= x /\ x <= high

Top == Resolution - 1

\* C13: every row has its attributes in the stated inclusive ranges, and each
\* end of each range is drawn: the lowest variate gives the lower end, the
\* highest variate the upper end (age 35, market_value 100M, goals 30, assists
\* 20, minutes_played 3500).
C13_InclusiveRanges ==
    Generated =>
        \A i \in 1..Len(out.df) :
           LET row == out.df[i]
               d == out.draws[i]
           IN  /\ InRange(row.player_age, 18, 35)
               /\ InRange(row.market_value, 5000000, 100000000)
               /\ row.market_value % 1000000 = 0
               /\ InRange(row.goals, 0, 30)
               /\ InRange(row.assists, 0, 20)
               /\ InRange(row.minutes_played, 500, 3500)
               /\ d.age = 0 => row.player_age = 18
               /\ d.age = Top => row.player_age = 35
               /\ d.market_value = 0 => row.market_value = 5000000
               /\ d.market_value = Top => row.market_value = 100000000
               /\ (d.has_goals = 0 /\ d.goals = 0) => row.goals = 0
               /\ (d.has_goals = 0 /\ d.goals = Top) => row.goals = 30
               /\ d.assists = 0 => row.assists = 0
               /\ d.assists = Top => row.assists = 20
               /\ d.minutes_played = 0 => row.minutes_played = 500
               /\ d.minutes_played = Top => row.minutes_played = 3500

\* C14: two calls of generate_mock_data in a row return the same dataset,
\* whatever was drawn from np.random before the first or between the two.
C14_Deterministic ==
    [][(Generated /\ out'.op = GeneratorCall) => out'.df = out.df]_vars

\* A second call that found the generator away from the start of the stream,
\* on a stream whose rows differ
C14_Witness ==
    /\ Generated /\ out.call = 2
    /\ out.before # 0
    /\ \E i, j \in 1..Len(out.df) : out.df[i] # out.df[j]

\* C15: load_model on a directory with a missing or unreadable file fails and
\* leaves the predictor (classifier, scaler, encoders, feature_names, club
\* registry) exactly as it was before the call.
C15_FailedLoadChangesNothing ==
    [][(out = Idle /\ out'.op = "load_model" /\ Damaged(disk) # {})
         => (out'.raised /\ predictor' = predictor)]_vars

\* C16: a train call that fails for want of the label column leaves the
\* encoders and feature_names as they were, so the scaler of a predictor always
\* belongs to its feature_names.
C16_FailedTrainChangesNothing ==
    /\ [][(out = Idle /\ out'.op = "train"
             /\ "transfer_happened" \notin Range(out'.df.columns))
           => /\ out'.raised
              /\ predictor'.label_encoders = predictor.label_encoders
              /\ predictor'.feature_names = predictor.feature_names]_vars
    /\ [](predictor.scaler.fitted
            => predictor.scaler.feature_names_in_ = predictor.feature_names)

====
